---- MODULE Spec2Model ----
(***************************************************************************)
(* Model of ai4boundaries/functions.py: download_ai4boundaries(dir, sensor, *)
(* country) and download_file(url, dst_path).                              *)
(*                                                                         *)
(* Python strings are sequences of one-character strings, so that          *)
(* str.endswith, str.replace, the `in` substring test and concatenation    *)
(* are computed character by character, as the interpreter computes them.  *)
(***************************************************************************)
EXTENDS Naturals, Sequences, FiniteSets, TLC

(***************************************************************************)
(* String operations of the Python runtime used by the program.            *)
(***************************************************************************)

\* t occurs in s at position i
StartsAt(s, t, i) ==
    /\ i + Len(t) - 1 <= Len(s)
    /\ \A k \in 1..Len(t) : s[i + k - 1] = t[k]

\* s.endswith(suf)
EndsWith(s, suf) ==
    /\ Len(s) >= Len(suf)
    /\ StartsAt(s, suf, Len(s) - Len(suf) + 1)

\* t in s
Contains(s, t) == \E i \in 1..(Len(s) + 1) : StartsAt(s, t, i)

\* s.replace(old, new), old non-empty: every non-overlapping occurrence,
\* scanning from the left
RECURSIVE ReplaceFrom(_, _, _, _)
ReplaceFrom(s, old, new, i) ==
    IF i > Len(s) THEN <<>>
    ELSE IF StartsAt(s, old, i)
         THEN new \o ReplaceFrom(s, old, new, i + Len(old))
         ELSE <<s[i]>> \o ReplaceFrom(s, old, new, i + 1)

Replace(s, old, new) == ReplaceFrom(s, old, new, 1)

(***************************************************************************)
(* String literals of the program.                                         *)
(***************************************************************************)

\* 'https://jeodpp.jrc.ec.europa.eu/ftp/jrc-opendata/DRLL/AI4BOUNDARIES/'
BASE_URL ==
    <<"h", "t", "t", "p", "s", ":", "/", "/", "j", "e", "o", "d", "p", "p", ".",
      "j", "r", "c", ".", "e", "c", ".", "e", "u", "r", "o", "p", "a", ".", "e",
      "u", "/">> \o
    <<"f", "t", "p", "/", "j", "r", "c", "-", "o", "p", "e", "n", "d", "a", "t",
      "a", "/">> \o
    <<"D", "R", "L", "L", "/", "A", "I", "4", "B", "O", "U", "N", "D", "A", "R",
      "I", "E", "S", "/">>

Slash == <<"/">>
Lit_tif == <<"t", "i", "f">>
Lit_nc == <<"n", "c">>
Lit_ftp == <<"f", "t", "p">>
Lit_DRLL == <<"D", "R", "L", "L", "/">>
Lit_orthophoto == <<"o", "r", "t", "h", "o", "p", "h", "o", "t", "o", "/">>
Lit_sentinel2 == <<"s", "e", "n", "t", "i", "n", "e", "l", "2", "/">>
Lit_images == <<"i", "m", "a", "g", "e", "s", "/">>
Lit_masks == <<"m", "a", "s", "k", "s", "/">>

Lit_All == <<"A", "l", "l">>
Lit_ortho == <<"o", "r", "t", "h", "o">>
Lit_s2 == <<"s", "2">>

valid_sensors == <<Lit_All, Lit_ortho, Lit_s2>>

valid_countries ==
    <<Lit_All, <<"A", "T">>, <<"E", "S">>, <<"F", "R">>, <<"L", "U">>,
      <<"N", "L">>, <<"S", "E">>, <<"S", "I">>>>

\* x in lst, for a Python list
InList(x, lst) == \E k \in 1..Len(lst) : lst[k] = x


(***************************************************************************)
(* Bounds and inputs of the model.                                         *)
(***************************************************************************)

\* how many calls of scrape can be active: stands for the recursion limit
\* of the interpreter, beyond which a call raises RecursionError
MaxDepth == 3

\* how many failing fetch attempts the remote server injects in one run,
\* over all file URLs
MaxFailures == 2

Lit_AT == <<"A", "T">>
Lit_XX == <<"X", "X">>
Lit_landsat == <<"l", "a", "n", "d", "s", "a", "t">>

\* values passed for `sensor` and `country`: valid ones and one invalid each
Sensors == {Lit_All, Lit_ortho, Lit_s2, Lit_landsat}
Countries == {Lit_All, Lit_AT, Lit_XX}

\* values passed for `dir`
Dir_data == <<"/", "d", "a", "t", "a">>
Dir_ftp == <<"f", "t", "p", "d", "a", "t", "a">>
RootDirs == {Dir_data, Dir_data \o Slash, Dir_ftp}

\* hyperlink targets served by the remote listings
H_a == <<"a", "/">>
H_c == <<"c", "/">>
H_sync == <<"s", "y", "n", "c", "/">>
H_x_tif == <<"x", ".", "t", "i", "f">>
H_y_nc == <<"y", ".", "n", "c">>
H_z_nc == <<"z", ".", "n", "c">>
H_motif == <<"m", "o", "t", "i", "f">>
H_index_html == <<"i", "n", "d", "e", "x", ".", "h", "t", "m", "l">>
H_readme_txt == <<"r", "e", "a", "d", "m", "e", ".", "t", "x", "t">>

H_self == <<".", "/">>
H_parent == <<"/">> \o <<"f", "t", "p", "/", "j", "r", "c", "-", "o", "p", "e", "n",
                          "d", "a", "t", "a", "/", "D", "R", "L", "L", "/">>
H_sort == <<"?", "C", "=", "N", ";", "O", "=", "D">>

\* The remote server: a finite set of static listing fixtures.  A listing is
\* the sequence of href attributes of the anchors of the page served for a
\* URL, in document order; the page depends on the URL alone.
Fixtures == {"nested", "backlink", "suffixes", "drll", "parent", "selfref"}

Listing(fx, url) ==
    CASE fx = "nested" ->
            \* one sub-directory a/ holding x.tif, and y.nc at top level
            IF EndsWith(url, Slash \o H_a) THEN <<H_x_tif>>
            ELSE <<H_a, H_y_nc>>
      [] fx = "backlink" ->
            \* nested sub-directories and a repeated link to a/
            IF EndsWith(url, Slash \o H_c) THEN <<H_z_nc>>
            ELSE IF EndsWith(url, Slash \o H_a) THEN <<H_c, H_x_tif>>
            ELSE <<H_a, H_a, H_y_nc>>
      [] fx = "suffixes" ->
            IF EndsWith(url, Slash \o H_sync) THEN <<>>
            ELSE <<H_index_html, H_motif, H_sync, H_readme_txt, H_y_nc>>
      [] fx = "drll" ->
            \* a sub-directory named like the archive folder
            IF EndsWith(url, Slash \o H_a) THEN <<H_x_tif>>
            ELSE IF EndsWith(url, Slash \o Lit_DRLL) THEN <<H_a>>
            ELSE <<Lit_DRLL, H_a>>
      [] fx = "parent" ->
            \* an index page with a column-sort anchor and a link to the parent
            \* directory; the parent link appended to a URL names no page
            IF EndsWith(url, H_parent) THEN <<>>
            ELSE IF EndsWith(url, Slash \o H_a) THEN <<H_x_tif>>
            ELSE <<H_sort, H_parent, H_a, H_y_nc>>
      [] fx = "selfref" ->
            \* one directory whose page links to itself as ./ ; the server
            \* resolves the dot segments, so every URL serves that page
            <<H_self, H_y_nc>>
      [] OTHER -> <<>>

(***************************************************************************)
(* Selection of the seed URLs (lines 38-70).                               *)
(***************************************************************************)

\* mutant: the country is not validated
InvalidArgument_SensorOnly(sensor_, country_) ==
    ~InList(sensor_, valid_sensors)

\* lines 42-45: the two membership tests that raise ValueError
InvalidArgument(sensor_, country_) ==
    \/ ~InList(sensor_, valid_sensors)
    \/ ~InList(country_, valid_countries)

\* mutant: the masks seed is listed before the images seed
Seeds_MasksFirst(sensor_, country_) ==
    IF sensor_ = Lit_All /\ country_ = Lit_All THEN
        <<BASE_URL>>
    ELSE IF sensor_ = Lit_ortho THEN
        IF country_ = Lit_All THEN
            <<BASE_URL \o Lit_orthophoto>>
        ELSE
            << BASE_URL \o Lit_orthophoto \o Lit_masks \o country_ \o Slash,
               BASE_URL \o Lit_orthophoto \o Lit_images \o country_ \o Slash >>
    ELSE IF sensor_ = Lit_s2 THEN
        IF country_ = Lit_All THEN
            <<BASE_URL \o Lit_sentinel2>>
        ELSE
            << BASE_URL \o Lit_sentinel2 \o Lit_masks \o country_ \o Slash,
               BASE_URL \o Lit_sentinel2 \o Lit_images \o country_ \o Slash >>
    ELSE <<>>

\* mutant: the first branch tests the sensor alone, so that sensor All with
\* one country selects the catalog root
Seeds_AllIgnoresCountry(sensor_, country_) ==
    IF sensor_ = Lit_All THEN
        <<BASE_URL>>
    ELSE IF sensor_ = Lit_ortho THEN
        IF country_ = Lit_All THEN
            <<BASE_URL \o Lit_orthophoto>>
        ELSE
            << BASE_URL \o Lit_orthophoto \o Lit_images \o country_ \o Slash,
               BASE_URL \o Lit_orthophoto \o Lit_masks \o country_ \o Slash >>
    ELSE IF sensor_ = Lit_s2 THEN
        IF country_ = Lit_All THEN
            <<BASE_URL \o Lit_sentinel2>>
        ELSE
            << BASE_URL \o Lit_sentinel2 \o Lit_images \o country_ \o Slash,
               BASE_URL \o Lit_sentinel2 \o Lit_masks \o country_ \o Slash >>
    ELSE <<>>

\* lines 48-70: the list `urls` after the if/elif chain
Seeds(sensor_, country_) ==
    IF sensor_ = Lit_All /\ country_ = Lit_All THEN
        <<BASE_URL>>
    ELSE IF sensor_ = Lit_ortho THEN
        IF country_ = Lit_All THEN
            <<BASE_URL \o Lit_orthophoto>>
        ELSE
            << BASE_URL \o Lit_orthophoto \o Lit_images \o country_ \o Slash,
               BASE_URL \o Lit_orthophoto \o Lit_masks \o country_ \o Slash >>
    ELSE IF sensor_ = Lit_s2 THEN
        IF country_ = Lit_All THEN
            <<BASE_URL \o Lit_sentinel2>>
        ELSE
            << BASE_URL \o Lit_sentinel2 \o Lit_images \o country_ \o Slash,
               BASE_URL \o Lit_sentinel2 \o Lit_masks \o country_ \o Slash >>
    ELSE <<>>

(***************************************************************************)
(* Translation of remote URLs to local paths (lines 100-105, 114-117).     *)
(***************************************************************************)

\* mutant: the separator is appended without testing for it
LocalRoot_AlwaysAppends(dir_) == dir_ \o Slash

\* lines 100-103, 114-117, 127-130: the replacement for BASE_URL
LocalRoot(dir_) == IF EndsWith(dir_, Slash) THEN dir_ ELSE dir_ \o Slash

\* lines 114-117 and 127-130: fn
LocalFile(url_fn, dir_) == Replace(url_fn, BASE_URL, LocalRoot(dir_))

\* line 101/103: the condition of the first comprehension
KeptUrl(url) == ~EndsWith(url, Lit_DRLL)

\* line 101/103: the element of the first comprehension
ReplacedDir(url, dir_) == Replace(url, BASE_URL, LocalRoot(dir_))

\* line 105: the condition of the second comprehension
KeptSubdir(subdir) == ~Contains(subdir, Lit_ftp)

\* line 105: the element of the second comprehension
CollapsedDir(subdir) == Replace(subdir, Lit_DRLL, <<>>)

\* a URL of `urls` yields an element of `subdirs`
IsMaterialized(url, dir_) == KeptUrl(url) /\ KeptSubdir(ReplacedDir(url, dir_))

\* its element of `subdirs`
LocalDir(url, dir_) == CollapsedDir(ReplacedDir(url, dir_))

\* lines 100-105: subdirs
RECURSIVE LocalDirs(_, _)
LocalDirs(urls_, dir_) ==
    IF urls_ = <<>> THEN <<>>
    ELSE (IF IsMaterialized(Head(urls_), dir_)
          THEN <<LocalDir(Head(urls_), dir_)>> ELSE <<>>)
         \o LocalDirs(Tail(urls_), dir_)

(***************************************************************************)
(* The local file system: the directories and files that exist, by their   *)
(* normalized path (no repeated and no trailing separator).                *)
(***************************************************************************)

RECURSIVE SquashFrom(_, _)
SquashFrom(p, n) ==
    IF n > Len(p) THEN <<>>
    ELSE IF p[n] = "/" /\ n > 1 /\ p[n - 1] = "/" THEN SquashFrom(p, n + 1)
    ELSE <<p[n]>> \o SquashFrom(p, n + 1)

NormPath(p) ==
    LET q == SquashFrom(p, 1)
    IN  IF Len(q) > 1 /\ q[Len(q)] = "/" THEN SubSeq(q, 1, Len(q) - 1) ELSE q

\* the directory holding the normalized path p: <<>> is the working
\* directory, <<"/">> the file system root
ParentDir(p) ==
    LET cuts == {n \in 1..Len(p) : p[n] = "/"}
    IN  IF cuts = {} THEN <<>>
        ELSE LET last == CHOOSE n \in cuts : \A m \in cuts : m <= n
             IN  IF last = 1 THEN Slash ELSE SubSeq(p, 1, last - 1)

BaseDirs == {<<>>, Slash}

\* p and the directories above it, up to the working directory or the root
RECURSIVE WithParents(_)
WithParents(p) ==
    IF p \in BaseDirs THEN {} ELSE {p} \cup WithParents(ParentDir(p))

\* line 108: Path(subdir).mkdir(parents=True, exist_ok=True)
Mkdir(dirs, subdir) == dirs \cup WithParents(NormPath(subdir))

\* mutant: mkdir without exist_ok raises for a directory that exists
MkdirRaises_NoExistOk(dirs, files, subdir) ==
    \/ NormPath(subdir) \in dirs
    \/ WithParents(NormPath(subdir)) \cap files # {}

\* line 108: mkdir(parents=True, exist_ok=True) raises only when the path or
\* one of the directories above it exists as a file
MkdirRaises(dirs, files, subdir) ==
    WithParents(NormPath(subdir)) \cap files # {}

\* line 24: open(dst_path, mode='wb') succeeds
CanOpen(dirs, dst_path) ==
    /\ ParentDir(NormPath(dst_path)) \in dirs
    /\ NormPath(dst_path) \notin dirs


(***************************************************************************)
(* State of one call of download_ai4boundaries.                            *)
(***************************************************************************)

VARIABLES
    dir, sensor, country,   \* the arguments of the call
    run,                    \* which call of the script this is: 1 or 2
    fs0,                    \* the local file system when the call started
    fixture,                \* what the remote server serves
    net,                    \* per file URL: how its fetches fail
    pc,                     \* the statement the call is at
    urls,                   \* list urls
    url_fns,                \* list url_fns
    stack,                  \* the active calls of scrape, innermost last
    pos,                    \* position of the running for loop
    subdirs,                \* list subdirs
    failed_fns,             \* list failed_fns
    fsDirs, fsFiles,        \* local directories and files that exist
    fetched,                \* history: sites passed to requests.get
    links,                  \* history: <<site, href>> of every anchor processed
    attempts,               \* history: calls of download_file
    sleeps                  \* history: number of time.sleep(20) calls

vars == <<dir, sensor, country, run, fs0, fixture, net, pc, urls, url_fns, stack, pos,
          subdirs, failed_fns, fsDirs, fsFiles, fetched, links, attempts,
          sleeps>>

\* what is fixed while one call runs
inputs == <<dir, sensor, country, run, fs0, fixture>>

Init ==
    /\ dir \in RootDirs
    /\ sensor \in Sensors
    /\ country \in Countries
    /\ fixture \in Fixtures
    /\ run = 1
    /\ fs0 = [dirs |-> BaseDirs, files |-> {}]
    /\ net = <<>>
    /\ pc = "validate"
    /\ urls = <<>>
    /\ url_fns = <<>>
    /\ stack = <<>>
    /\ pos = 1
    /\ subdirs = <<>>
    /\ failed_fns = <<>>
    /\ fsDirs = BaseDirs
    /\ fsFiles = {}
    /\ fetched = <<>>
    /\ links = <<>>
    /\ attempts = <<>>
    /\ sleeps = 0

(***************************************************************************)
(* Lines 38-70: validation and seed selection.                             *)
(***************************************************************************)

Validate ==
    /\ pc = "validate"
    /\ pc' = IF InvalidArgument(sensor, country) THEN "ValueError" ELSE "select"
    /\ UNCHANGED <<inputs, net, urls, url_fns, stack, pos, subdirs, failed_fns,
                   fsDirs, fsFiles, fetched, links, attempts, sleeps>>

SelectSeeds ==
    /\ pc = "select"
    /\ urls' = Seeds(sensor, country)
    /\ url_fns' = <<>>
    /\ pos' = 1
    /\ pc' = "scrape"
    /\ UNCHANGED <<inputs, net, stack, subdirs, failed_fns, fsDirs, fsFiles,
                   fetched, links, attempts, sleeps>>

(***************************************************************************)
(* Lines 72-96: scraping.  A frame of `stack` is one call of scrape:       *)
(* site, the hrefs s of the page once fetched (got), and the index `at` of *)
(* the anchor the for loop of line 82 is at.                               *)
(***************************************************************************)

Frame(site) == [site |-> site, got |-> FALSE, s |-> <<>>, at |-> 1]

Top == stack[Len(stack)]

SetTop(f) == [stack EXCEPT ![Len(stack)] = f]

\* lines 95-96: `for url in urls: scrape(url)`; the list iterator reads
\* urls[pos] as long as pos is within the list as it is at that moment
ScrapeLoop ==
    /\ pc = "scrape"
    /\ stack = <<>>
    /\ IF pos <= Len(urls)
       THEN /\ stack' = <<Frame(urls[pos])>>
            /\ pos' = pos + 1
            /\ pc' = "scrape"
       ELSE /\ stack' = stack
            /\ pos' = 1
            /\ pc' = "translate"
    /\ UNCHANGED <<inputs, net, urls, url_fns, subdirs, failed_fns, fsDirs,
                   fsFiles, fetched, links, attempts, sleeps>>

\* lines 78-80: requests.get(site) and the parse; a failing request raises
\* out of every active call of scrape and out of download_ai4boundaries
ScrapeGet ==
    /\ pc = "scrape"
    /\ stack # <<>>
    /\ ~Top.got
    /\ fetched' = Append(fetched, Top.site)
    /\ \E ok \in BOOLEAN :
          IF ok
          THEN /\ stack' = SetTop([Top EXCEPT !.got = TRUE,
                                              !.s = Listing(fixture, Top.site)])
               /\ pc' = "scrape"
          ELSE /\ stack' = stack
               /\ pc' = "RequestException"
    /\ UNCHANGED <<inputs, net, urls, url_fns, pos, subdirs, failed_fns, fsDirs,
                   fsFiles, links, attempts, sleeps>>

\* line 84
IsDirLink(href) == EndsWith(href, Slash)

\* mutant: every target that is not a directory is taken for a file
IsFileLink_AnyFile(href) == ~EndsWith(href, Slash)

\* line 90
IsFileLink(href) == EndsWith(href, Lit_tif) \/ EndsWith(href, Lit_nc)

\* mutant: the local directory of a sub-directory is created as soon as the
\* scrape discovers it
ScrapeLink_Mkdir ==
    /\ pc = "scrape"
    /\ stack # <<>>
    /\ Top.got
    /\ Top.at <= Len(Top.s)
    /\ LET site == Top.site
           href == Top.s[Top.at]
           subsite == site \o href
           next == SetTop([Top EXCEPT !.at = @ + 1])
           descend == IsDirLink(href) /\ ~InList(subsite, urls)
       IN  /\ links' = Append(links, <<site, href>>)
           /\ urls' = IF descend THEN Append(urls, subsite) ELSE urls
           /\ fsDirs' = IF descend
                        THEN Mkdir(fsDirs, Replace(subsite, BASE_URL,
                                                   LocalRoot(dir)))
                        ELSE fsDirs
           /\ stack' = IF descend /\ Len(stack) < MaxDepth
                       THEN Append(next, Frame(subsite)) ELSE next
           /\ pc' = IF descend /\ Len(stack) >= MaxDepth
                    THEN "RecursionError" ELSE pc
           /\ url_fns' = IF IsFileLink(href)
                         THEN Append(url_fns, site \o href) ELSE url_fns
    /\ UNCHANGED <<inputs, net, pos, subdirs, failed_fns, fsFiles,
                   fetched, attempts, sleeps>>

\* mutant: a sub-directory is appended and scraped without the test of
\* line 86
ScrapeLink_NoVisitedTest ==
    /\ pc = "scrape"
    /\ stack # <<>>
    /\ Top.got
    /\ Top.at <= Len(Top.s)
    /\ LET site == Top.site
           href == Top.s[Top.at]
           subsite == site \o href
           next == SetTop([Top EXCEPT !.at = @ + 1])
           descend == IsDirLink(href)
       IN  /\ links' = Append(links, <<site, href>>)
           /\ urls' = IF descend THEN Append(urls, subsite) ELSE urls
           /\ stack' = IF descend /\ Len(stack) < MaxDepth
                       THEN Append(next, Frame(subsite)) ELSE next
           /\ pc' = IF descend /\ Len(stack) >= MaxDepth
                    THEN "RecursionError" ELSE pc
           /\ url_fns' = IF IsFileLink(href)
                         THEN Append(url_fns, site \o href) ELSE url_fns
    /\ UNCHANGED <<inputs, net, pos, subdirs, failed_fns, fsDirs, fsFiles,
                   fetched, attempts, sleeps>>

\* lines 82-92: one iteration of the loop over the anchors, up to the
\* recursive call, which starts with the request of ScrapeGet
ScrapeLink ==
    /\ pc = "scrape"
    /\ stack # <<>>
    /\ Top.got
    /\ Top.at <= Len(Top.s)
    /\ LET site == Top.site
           href == Top.s[Top.at]
           subsite == site \o href
           next == SetTop([Top EXCEPT !.at = @ + 1])
           descend == IsDirLink(href) /\ ~InList(subsite, urls)
       IN  /\ links' = Append(links, <<site, href>>)
           /\ urls' = IF descend THEN Append(urls, subsite) ELSE urls
           /\ stack' = IF descend /\ Len(stack) < MaxDepth
                       THEN Append(next, Frame(subsite)) ELSE next
           /\ pc' = IF descend /\ Len(stack) >= MaxDepth
                    THEN "RecursionError" ELSE pc
           /\ url_fns' = IF IsFileLink(href)
                         THEN Append(url_fns, site \o href) ELSE url_fns
    /\ UNCHANGED <<inputs, net, pos, subdirs, failed_fns, fsDirs, fsFiles,
                   fetched, attempts, sleeps>>

\* the loop of line 82 is exhausted: scrape returns
ScrapeReturn ==
    /\ pc = "scrape"
    /\ stack # <<>>
    /\ Top.got
    /\ Top.at > Len(Top.s)
    /\ stack' = SubSeq(stack, 1, Len(stack) - 1)
    /\ UNCHANGED <<inputs, net, pc, urls, url_fns, pos, subdirs, failed_fns,
                   fsDirs, fsFiles, fetched, links, attempts, sleeps>>

(***************************************************************************)
(* Lines 98-108: the local directory tree.                                 *)
(***************************************************************************)

Translate ==
    /\ pc = "translate"
    /\ subdirs' = LocalDirs(urls, dir)
    /\ pos' = 1
    /\ pc' = "mkdir"
    /\ UNCHANGED <<inputs, net, urls, url_fns, stack, failed_fns, fsDirs,
                   fsFiles, fetched, links, attempts, sleeps>>

MakeDirs ==
    /\ pc = "mkdir"
    /\ IF pos <= Len(subdirs)
       THEN IF MkdirRaises(fsDirs, fsFiles, subdirs[pos])
            THEN /\ pc' = "FileExistsError"
                 /\ UNCHANGED <<fsDirs, pos, failed_fns>>
            ELSE /\ fsDirs' = Mkdir(fsDirs, subdirs[pos])
                 /\ pos' = pos + 1
                 /\ pc' = "mkdir"
                 /\ failed_fns' = failed_fns
       ELSE /\ fsDirs' = fsDirs
            /\ pos' = 1
            /\ pc' = "download"
            /\ failed_fns' = <<>>
    /\ UNCHANGED <<inputs, net, urls, url_fns, stack, subdirs, fsFiles, fetched,
                   links, attempts, sleeps>>


(***************************************************************************)
(* The remote server's answers to file fetches.  net[u] is fixed when u is *)
(* first fetched: the first net[u].fails fetches of u fail with            *)
(* net[u].kind, the later ones succeed.                                    *)
(***************************************************************************)

FailureKinds == {"URLError", "OtherError"}

RECURSIVE SumFails(_, _)
SumFails(f, S) ==
    IF S = {} THEN 0
    ELSE LET u == CHOOSE x \in S : TRUE
         IN  f[u].fails + SumFails(f, S \ {u})

Budget == MaxFailures - SumFails(net, DOMAIN net)

PlansFor(url) ==
    IF url \in DOMAIN net THEN {net[url]}
    ELSE {[fails |-> 0, kind |-> "none"]}
         \cup {[fails |-> n, kind |-> kd] : n \in 1..Budget, kd \in FailureKinds}

\* number of calls of download_file(url, ...) so far
RECURSIVE CountAttempts(_, _)
CountAttempts(log, url) ==
    IF log = <<>> THEN 0
    ELSE (IF Head(log).url = url THEN 1 ELSE 0) + CountAttempts(Tail(log), url)

\* what urlopen(url)/read() does on the next fetch of url under plan
FetchOutcome(plan, url) ==
    IF CountAttempts(attempts, url) < plan.fails THEN plan.kind ELSE "ok"

(***************************************************************************)
(* Lines 14-27: download_file.                                             *)
(***************************************************************************)

\* mutant: the local file is opened before the URL, so that a failed fetch
\* leaves a file behind
download_file_OpensFirst(outcome, dst_path, dirs) ==
    IF CanOpen(dirs, dst_path) THEN "written" ELSE "raised"

\* "written": the file is written; "printed": the except clause of line 26
\* caught a URLError and the function returns; "raised": an exception
\* leaves the function (any other network error, or the OSError of open)
download_file(outcome, dst_path, dirs) ==
    IF outcome = "URLError" THEN "printed"
    ELSE IF outcome = "OtherError" THEN "raised"
    ELSE IF CanOpen(dirs, dst_path) THEN "written"
    ELSE "raised"

(***************************************************************************)
(* Lines 110-136: the two download passes.                                 *)
(***************************************************************************)

\* lines 113-122: one iteration of the first pass; after the last one,
\* line 126 starts the loop over failed_fns
Download ==
    /\ pc = "download"
    /\ IF pos <= Len(url_fns)
       THEN LET url_fn == url_fns[pos]
                fn == LocalFile(url_fn, dir)
            IN  \E plan \in PlansFor(url_fn) :
                  LET outcome == FetchOutcome(plan, url_fn)
                      result == download_file(outcome, fn, fsDirs)
                  IN  /\ net' = (url_fn :> plan) @@ net
                      /\ attempts' = Append(attempts,
                            [url |-> url_fn, pass |-> 1, outcome |-> outcome,
                             result |-> result])
                      /\ fsFiles' = IF result = "written"
                                    THEN fsFiles \cup {NormPath(fn)} ELSE fsFiles
                      /\ sleeps' = IF result = "raised" THEN sleeps + 1 ELSE sleeps
                      /\ failed_fns' = IF result = "raised"
                                       THEN Append(failed_fns, url_fn)
                                       ELSE failed_fns
                      /\ pos' = pos + 1
                      /\ pc' = "download"
       ELSE /\ pos' = 1
            /\ pc' = "retry"
            /\ UNCHANGED <<net, attempts, fsFiles, sleeps, failed_fns>>
    /\ UNCHANGED <<inputs, urls, url_fns, stack, subdirs, fsDirs, fetched, links>>

\* mutant: the retry pass applies the cooldown after a failure, like the
\* first pass
Retry_WithCooldown ==
    /\ pc = "retry"
    /\ IF pos <= Len(failed_fns)
       THEN LET url_fn == failed_fns[pos]
                fn == LocalFile(url_fn, dir)
            IN  \E plan \in PlansFor(url_fn) :
                  LET outcome == FetchOutcome(plan, url_fn)
                      result == download_file(outcome, fn, fsDirs)
                  IN  /\ net' = (url_fn :> plan) @@ net
                      /\ attempts' = Append(attempts,
                            [url |-> url_fn, pass |-> 2, outcome |-> outcome,
                             result |-> result])
                      /\ fsFiles' = IF result = "written"
                                    THEN fsFiles \cup {NormPath(fn)} ELSE fsFiles
                      /\ sleeps' = IF result = "raised" THEN sleeps + 1 ELSE sleeps
                      /\ pos' = pos + 1
                      /\ pc' = "retry"
       ELSE /\ pos' = pos
            /\ pc' = "done"
            /\ UNCHANGED <<net, attempts, fsFiles, sleeps>>
    /\ UNCHANGED <<inputs, urls, url_fns, stack, subdirs, failed_fns, fsDirs,
                   fetched, links>>

\* lines 126-134: one iteration of the retry pass; after the last one,
\* lines 136-141 print the closing notice and the call returns
Retry ==
    /\ pc = "retry"
    /\ IF pos <= Len(failed_fns)
       THEN LET url_fn == failed_fns[pos]
                fn == LocalFile(url_fn, dir)
            IN  \E plan \in PlansFor(url_fn) :
                  LET outcome == FetchOutcome(plan, url_fn)
                      result == download_file(outcome, fn, fsDirs)
                  IN  /\ net' = (url_fn :> plan) @@ net
                      /\ attempts' = Append(attempts,
                            [url |-> url_fn, pass |-> 2, outcome |-> outcome,
                             result |-> result])
                      /\ fsFiles' = IF result = "written"
                                    THEN fsFiles \cup {NormPath(fn)} ELSE fsFiles
                      /\ pos' = pos + 1
                      /\ pc' = "retry"
       ELSE /\ pos' = pos
            /\ pc' = "done"
            /\ UNCHANGED <<net, attempts, fsFiles>>
    /\ UNCHANGED <<inputs, urls, url_fns, stack, subdirs, failed_fns, fsDirs,
                   fetched, links, sleeps>>

(***************************************************************************)
(* Lines 144-148: the script is run a second time with the same arguments, *)
(* on the file system the first call left, after a first call in which no  *)
(* fetch failed.  The lists of the call are new; the histories start over. *)
(***************************************************************************)

Rerun ==
    /\ pc = "done"
    /\ run = 1
    /\ \A u \in DOMAIN net : net[u].fails = 0
    /\ run' = 2
    /\ fs0' = [dirs |-> fsDirs, files |-> fsFiles]
    /\ pc' = "validate"
    /\ urls' = <<>>
    /\ url_fns' = <<>>
    /\ stack' = <<>>
    /\ pos' = 1
    /\ subdirs' = <<>>
    /\ failed_fns' = <<>>
    /\ fetched' = <<>>
    /\ links' = <<>>
    /\ attempts' = <<>>
    /\ sleeps' = 0
    /\ UNCHANGED <<dir, sensor, country, fixture, net, fsDirs, fsFiles>>

Next ==
    \/ Validate
    \/ SelectSeeds
    \/ ScrapeLoop
    \/ ScrapeGet
    \/ ScrapeLink
    \/ ScrapeReturn
    \/ Translate
    \/ MakeDirs
    \/ Download
    \/ Retry
    \/ Rerun

Spec == Init /\ [][Next]_vars


(***************************************************************************)
(* Properties.                                                             *)
(***************************************************************************)

Range(seq) == {seq[n] : n \in 1..Len(seq)}

NoRepeats(seq) == \A m, n \in 1..Len(seq) : seq[m] = seq[n] => m = n

ScrapingOver == pc \in {"translate", "mkdir", "download", "retry", "done"}

\* C1: during scraping every distinct directory URL (each seed and each
\* discovered sub-directory) has its listing fetched exactly once per run:
\* no site is ever requested twice, and once scraping is over every URL of
\* urls has been requested.
C1_EachDirectoryFetchedOnce ==
    /\ NoRepeats(fetched)
    /\ ScrapingOver => Range(urls) = Range(fetched)

\* the fetches of url recorded so far, in order
RECURSIVE AttemptsOf(_, _)
AttemptsOf(log, url) ==
    IF log = <<>> THEN <<>>
    ELSE (IF Head(log).url = url THEN <<Head(log)>> ELSE <<>>)
         \o AttemptsOf(Tail(log), url)

\* C2: a file URL of the file list whose fetch fails on the first attempt
\* and would succeed on a second attempt (the server fails its first fetch
\* only, net[u].fails = 1, whatever net[u].kind, and its local file can be
\* opened) is present at its local path when the call returns.
C2_RetryRecoversFirstFailure ==
    pc = "done" =>
        \A u \in Range(url_fns) :
            (/\ u \in DOMAIN net
             /\ net[u].fails = 1
             /\ CanOpen(fsDirs, LocalFile(u, dir)))
                => NormPath(LocalFile(u, dir)) \in fsFiles

\* C3: a file URL all of whose fetch attempts failed (the first attempt and
\* the retry) has no file at its local path; a failed fetch never ends the
\* run: once downloads have begun the call is in a download pass or has
\* returned, and when it has returned every entry of the file list was
\* attempted in the first pass and every entry of the failure list in the
\* retry pass.
C3_FailedTwiceNothingWritten ==
    /\ \A u \in Range(url_fns) :
          LET tries == AttemptsOf(attempts, u)
          IN  (tries # <<>> /\ \A n \in 1..Len(tries) : tries[n].outcome # "ok")
                  => NormPath(LocalFile(u, dir)) \notin fsFiles
    /\ attempts # <<>> => pc \in {"download", "retry", "done"}
    /\ pc = "done" =>
          /\ Len(SelectSeq(attempts, LAMBDA a : a.pass = 1)) = Len(url_fns)
          /\ Len(SelectSeq(attempts, LAMBDA a : a.pass = 2)) = Len(failed_fns)

\* a URL failed on its first attempt and on its retry, nothing was written
\* for it, a later file was still downloaded and the call returned
C3_Witness ==
    /\ pc = "done"
    /\ \E u \in Range(failed_fns) :
          LET tries == AttemptsOf(attempts, u)
          IN  /\ Len(tries) = 2
              /\ tries[1].outcome = "OtherError" /\ tries[1].pass = 1
              /\ tries[2].outcome = "OtherError" /\ tries[2].pass = 2
              /\ NormPath(LocalFile(u, dir)) \notin fsFiles
              /\ \E m, n \in 1..Len(attempts) :
                    /\ m < n
                    /\ attempts[m].url = u
                    /\ attempts[n].url # u
                    /\ attempts[n].result = "written"

SensorNames == {<<"A", "l", "l">>, <<"o", "r", "t", "h", "o">>, <<"s", "2">>}

CountryCodes == {<<"A", "T">>, <<"E", "S">>, <<"F", "R">>, <<"L", "U">>,
                 <<"N", "L">>, <<"S", "E">>, <<"S", "I">>}

NothingDone ==
    /\ fetched = <<>>
    /\ attempts = <<>>
    /\ fsDirs = BaseDirs
    /\ fsFiles = {}

\* C4: with sensor outside {All, ortho, s2} or country outside {All, AT, ES,
\* FR, LU, NL, SE, SI} the call fails with an invalid-argument error before
\* any listing fetch, directory creation or file download: it is at its
\* first statement or has raised ValueError, and nothing has been fetched,
\* created or written.
C4_InvalidArgumentBeforeIO ==
    (sensor \notin SensorNames \/ country \notin CountryCodes \cup {<<"A", "l", "l">>})
        => /\ pc \in {"validate", "ValueError"}
           /\ urls = <<>>
           /\ NothingDone

C4_Witness ==
    /\ pc = "ValueError"
    /\ sensor \in SensorNames
    /\ country \notin CountryCodes \cup {<<"A", "l", "l">>}
    /\ NothingDone

\* the seed list of section 4.1, for a valid pair other than (All, X)
SeedTable(sn, cc) ==
    LET root == BASE_URL
        all == <<"A", "l", "l">>
        tree == IF sn = <<"s", "2">> THEN <<"s", "e", "n", "t", "i", "n", "e", "l", "2", "/">>
                ELSE <<"o", "r", "t", "h", "o", "p", "h", "o", "t", "o", "/">>
    IN  IF sn = all THEN <<root>>
        ELSE IF cc = all THEN <<root \o tree>>
        ELSE << root \o tree \o <<"i", "m", "a", "g", "e", "s", "/">> \o cc \o <<"/">>,
                root \o tree \o <<"m", "a", "s", "k", "s", "/">> \o cc \o <<"/">> >>

SeedsSelected == pc \notin {"validate", "select", "ValueError"}

\* C5: for every valid (sensor, country) other than (All, X) with X # All,
\* the seed list is exactly the one of the table, in that order and without
\* duplicates: it is the list urls when scraping starts and stays the head
\* of urls afterwards.
C5_SeedListExact ==
    (/\ SeedsSelected
     /\ sensor \in SensorNames
     /\ country \in CountryCodes \cup {<<"A", "l", "l">>}
     /\ ~(sensor = <<"A", "l", "l">> /\ country \in CountryCodes))
        => LET want == SeedTable(sensor, country)
           IN  /\ Len(urls) >= Len(want)
               /\ SubSeq(urls, 1, Len(want)) = want
               /\ NoRepeats(want)
               /\ fetched = <<>> => urls = want

C5_Witness ==
    /\ pc = "scrape"
    /\ fetched = <<>>
    /\ sensor = <<"o", "r", "t", "h", "o">>
    /\ country = <<"A", "T">>
    /\ Len(urls) = 2

\* C6: for sensor = All and a country X # All the seed list is empty, the
\* run fetches no listing, creates no directory and downloads no file, and
\* it raises no error.
C6_AllSensorsOneCountry ==
    (sensor = <<"A", "l", "l">> /\ country \in CountryCodes)
        => /\ urls = <<>>
           /\ NothingDone
           /\ pc \notin {"ValueError", "RequestException"}

C6_Witness ==
    /\ pc = "done"
    /\ sensor = <<"A", "l", "l">>
    /\ country = <<"A", "T">>
    /\ urls = <<>>
    /\ NothingDone

HasDataSuffix(href) ==
    \/ EndsWith(href, <<"t", "i", "f">>)
    \/ EndsWith(href, <<"n", "c">>)

\* the absolute URLs of the anchors of log whose target has a data suffix
RECURSIVE DataTargets(_)
DataTargets(log) ==
    IF log = <<>> THEN <<>>
    ELSE (IF HasDataSuffix(Head(log)[2])
          THEN <<Head(log)[1] \o Head(log)[2]>> ELSE <<>>)
         \o DataTargets(Tail(log))

Suffix_html == <<".", "h", "t", "m", "l">>

\* C7: the scraper recognises exactly the two data-file suffixes: the file
\* list is the list of the processed anchors whose target ends with tif or
\* nc, and a target ending in .html is in neither the directory list nor
\* the file list.
C7_ExactlyTwoSuffixes ==
    /\ url_fns = DataTargets(links)
    /\ \A n \in 1..Len(links) :
          EndsWith(links[n][2], Suffix_html)
              => /\ links[n][1] \o links[n][2] \notin Range(urls)
                 /\ links[n][1] \o links[n][2] \notin Range(url_fns)

C7_Witness ==
    /\ ScrapingOver
    /\ \E n \in 1..Len(links) : EndsWith(links[n][2], Suffix_html)
    /\ \E n \in 1..Len(links) : links[n][2] = H_readme_txt
    /\ \E n \in 1..Len(links) : links[n][2] = H_y_nc
    /\ \E n \in 1..Len(links) : links[n][2] = H_motif

\* C8: for the rootDir of the call, two distinct remote URLs under the base
\* prefix never translate to the same local path: neither two directory
\* URLs that are materialized nor two file URLs.
C8_TranslationInjective ==
    /\ \A u, v \in Range(urls) :
          (/\ u # v
           /\ IsMaterialized(u, dir)
           /\ IsMaterialized(v, dir)) => LocalDir(u, dir) # LocalDir(v, dir)
    /\ \A u, v \in Range(url_fns) :
          u # v => LocalFile(u, dir) # LocalFile(v, dir)


AllFetchesSucceeded ==
    \A n \in 1..Len(attempts) : attempts[n].outcome = "ok"

\* C9: end to end, for the seed directory holding one sub-directory a/ (with
\* the file x.tif) and the top-level file y.nc (fixture "nested" under the
\* catalog root), with all fetches succeeding and root directory R = dir:
\* when the call has returned, the directories created below R are exactly
\* R/a, and the files are exactly R/a/x.tif and R/y.nc.
C9_EndToEndTree ==
    (/\ pc = "done"
     /\ fixture = "nested"
     /\ sensor = <<"A", "l", "l">>
     /\ country = <<"A", "l", "l">>
     /\ AllFetchesSucceeded)
        => LET R == NormPath(dir)
           IN  /\ fsDirs \ (BaseDirs \cup WithParents(R)) = {R \o <<"/", "a">>}
               /\ fsFiles = {R \o <<"/", "a", "/", "x", ".", "t", "i", "f">>,
                             R \o <<"/", "y", ".", "n", "c">>}

\* C10: the trailing separator of the root directory is optional: for every
\* remote URL the scraper has collected when translation starts and every
\* root directory r written without it, translating with r and with r/
\* yields the same local file path and the same list of local directories.
C10_TrailingSeparatorOptional ==
    pc = "translate" =>
        \A r \in RootDirs :
            ~EndsWith(r, <<"/">>) =>
                /\ \A u \in Range(urls) \cup Range(url_fns) :
                      LocalFile(u, r) = LocalFile(u, r \o <<"/">>)
                /\ LocalDirs(urls, r) = LocalDirs(urls, r \o <<"/">>)

\* translation starts with directories and files to translate, for a root
\* directory written without the separator
C10_Witness ==
    /\ pc = "translate"
    /\ ~EndsWith(dir, <<"/">>)
    /\ LocalDirs(urls, dir) # <<>>
    /\ url_fns # <<>>


\* subdirs created one after the other, starting from dirs
RECURSIVE MaterializeAll(_, _)
MaterializeAll(dirs, list) ==
    IF list = <<>> THEN dirs
    ELSE MaterializeAll(dirs \cup WithParents(NormPath(Head(list))), Tail(list))

\* C11: materialization is idempotent: creating the translated directories
\* raises no error when some or all of them exist, and a second run with the
\* same discovered set leaves exactly the directories that a single
\* materialization of that set creates (which the first run left).
C11_MaterializeIdempotent ==
    /\ pc # "FileExistsError"
    /\ (run = 2 /\ pc \in {"mkdir", "download", "retry", "done"})
          => /\ fsDirs = MaterializeAll(BaseDirs, subdirs)
             /\ fsDirs = fs0.dirs

\* the second run has created its directories, all of which existed
C11_Witness ==
    /\ run = 2
    /\ pc = "download"
    /\ Len(subdirs) >= 2
    /\ \A n \in 1..Len(subdirs) : NormPath(subdirs[n]) \in fs0.dirs


\* the depth-first traversal of the served listings from site, from its
\* n-th anchor on: a sub-directory link not seen before is explored in full
\* where it appears, a data-file link is appended to out
RECURSIVE Walk(_, _, _)
Walk(site, n, acc) ==
    LET s == Listing(fixture, site)
    IN  IF n > Len(s) THEN acc
        ELSE LET target == site \o s[n]
             IN  IF EndsWith(s[n], <<"/">>) /\ target \notin acc.seen
                 THEN Walk(site, n + 1,
                           Walk(target, 1, [acc EXCEPT !.seen = @ \cup {target}]))
                 ELSE IF HasDataSuffix(s[n])
                 THEN Walk(site, n + 1, [acc EXCEPT !.out = Append(@, target)])
                 ELSE Walk(site, n + 1, acc)

RECURSIVE WalkSeeds(_, _)
WalkSeeds(seeds, acc) ==
    IF seeds = <<>> THEN acc
    ELSE WalkSeeds(Tail(seeds), Walk(Head(seeds), 1, acc))

\* the data-file URLs in the order a depth-first traversal from the seeds
\* encounters them
DepthFirstFiles(seeds) ==
    WalkSeeds(seeds, [seen |-> Range(seeds), out |-> <<>>]).out

\* C12: the file list returned by scraping holds every data-file URL
\* reachable from the seeds, in the order in which a depth-first traversal
\* following the links in listing order encounters them.
C12_FileListDepthFirst ==
    pc = "translate" =>
        url_fns = DepthFirstFiles(
                      IF sensor = <<"A", "l", "l">> /\ country \in CountryCodes
                      THEN <<>> ELSE SeedTable(sensor, country))


\* the URLs of the first-pass attempts of log that wrote no file, in order
RECURSIVE FirstPassFailures(_)
FirstPassFailures(log) ==
    IF log = <<>> THEN <<>>
    ELSE (IF Head(log).pass = 1 /\ Head(log).result # "written"
          THEN <<Head(log).url>> ELSE <<>>)
         \o FirstPassFailures(Tail(log))

\* C13: after the first download pass the failure list holds exactly the
\* file-list entries whose first download attempt failed, in discovery
\* order, the cooldown was applied once per such failure, and every entry
\* of the file list was attempted.
C13_FailureListExact ==
    pc \in {"retry", "done"} =>
        /\ failed_fns = FirstPassFailures(attempts)
        /\ sleeps = Len(FirstPassFailures(attempts))
        /\ Len(SelectSeq(attempts, LAMBDA a : a.pass = 1)) = Len(url_fns)


FirstPass == SelectSeq(attempts, LAMBDA a : a.pass = 1)

RetryPass == SelectSeq(attempts, LAMBDA a : a.pass = 2)

\* C14: there is one retry pass and it starts only after the first pass
\* has attempted every entry of the file list: the first-pass attempts are
\* the entries of the file list, one each and in order; the retry attempts
\* are the entries of the failure list, one each and in order, and all come
\* after the first pass; nothing is attempted beyond that; the failure list
\* and the number of cooldowns are those of the first pass alone.
C14_SingleRetryPass ==
    /\ \A m, n \in 1..Len(attempts) :
          m < n => attempts[m].pass <= attempts[n].pass
    /\ Len(FirstPass) <= Len(url_fns)
    /\ \A n \in 1..Len(FirstPass) : FirstPass[n].url = url_fns[n]
    /\ Len(RetryPass) <= Len(failed_fns)
    /\ \A n \in 1..Len(RetryPass) : RetryPass[n].url = failed_fns[n]
    /\ RetryPass # <<>> => Len(FirstPass) = Len(url_fns)
    /\ Len(failed_fns) = Len(SelectSeq(FirstPass, LAMBDA a : a.result = "raised"))
    /\ sleeps = Len(SelectSeq(FirstPass, LAMBDA a : a.result = "raised"))
    /\ pc = "done" => /\ Len(FirstPass) = Len(url_fns)
                      /\ Len(RetryPass) = Len(failed_fns)

\* a run has returned whose retry pass attempted a failed entry, which
\* failed again
C14_Witness ==
    /\ pc = "done"
    /\ failed_fns # <<>>
    /\ Len(RetryPass) = Len(failed_fns)
    /\ Len(failed_fns) < Len(url_fns)
    /\ \E n \in 1..Len(RetryPass) : RetryPass[n].outcome = "OtherError"


\* a link to a child sub-directory: a relative name followed by the separator
IsChildDirLink(href) ==
    /\ EndsWith(href, <<"/">>)
    /\ href[1] \notin {"/", "."}

\* C15: a hyperlink that is neither a child sub-directory link nor a
\* data-file link (a parent-directory link, an unrelated anchor) is ignored:
\* its target is added to neither the directory list nor the file list, no
\* listing is fetched for it and no error is raised.
C15_OtherLinksIgnored ==
    \A n \in 1..Len(links) :
        LET href == links[n][2]
            target == links[n][1] \o href
        IN  (~IsChildDirLink(href) /\ ~HasDataSuffix(href))
                => /\ target \notin Range(urls)
                   /\ target \notin Range(url_fns)
                   /\ target \notin Range(fetched)

\* C16: scraping terminates for every finite remote tree with finite
\* listings, also with self-referential links and repeated links to a
\* directory already discovered: the recursion of scrape never runs into
\* the recursion limit, so that the scraping phase ends by starting the
\* materialization (or by a failed listing request).
C16_ScrapingTerminates == pc # "RecursionError"

\* the local tree is as the call found it
TreeUntouched == fsDirs = fs0.dirs /\ fsFiles = fs0.files

\* C17: a failed listing request during scraping is not caught and aborts
\* the run: nothing happens after it, and at that point no local directory
\* has been created and no file download has been attempted.  All scraping
\* precedes all directory creation, which precedes all downloads.
C17_ListingFailureAborts ==
    /\ pc = "RequestException"
          => /\ ~ENABLED Next
             /\ TreeUntouched
             /\ attempts = <<>>
    /\ pc = "scrape" => TreeUntouched /\ attempts = <<>>
    /\ pc \in {"translate", "mkdir"}
          => stack = <<>> /\ fsFiles = fs0.files /\ attempts = <<>>
    /\ pc \in {"download", "retry", "done"} => stack = <<>>

\* the listing of a sub-directory failed after the listing of its parent
\* had been fetched and read
C17_Witness ==
    /\ pc = "RequestException"
    /\ Len(fetched) >= 2
    /\ links # <<>>
    /\ url_fns # <<>>

IsPrefix(s, t) == Len(s) <= Len(t) /\ SubSeq(t, 1, Len(s)) = s

\* the n-th directory URL is a seed, or an earlier directory URL followed by
\* a link target of the listing of that URL
Discovered(n) ==
    \/ urls[n] \in Range(SeedTable(sensor, country))
    \/ \E m \in 1..(n - 1) :
          \E href \in Range(Listing(fixture, urls[m])) :
              urls[n] = urls[m] \o href

UrlsWellFormed ==
    /\ NoRepeats(urls)
    /\ \A n \in 1..Len(urls) :
          /\ EndsWith(urls[n], <<"/">>)
          /\ Discovered(n)

\* C18: in every state reached during scraping the list of directory URLs
\* contains no URL twice, every URL of it ends with the separator and is a
\* seed or an already discovered URL followed by a link target of that
\* URL's listing; and a step of the scrape only appends to the list, it
\* removes nothing.
C18_DirectoryListGrows ==
    /\ [](pc \in {"scrape", "RequestException", "RecursionError"}
            => UrlsWellFormed)
    /\ [][pc = "scrape" => IsPrefix(urls, urls')]_vars

\* the scrape has appended a sub-directory to the list and has then met a
\* second link to it, which it did not append
C18_Witness ==
    /\ pc = "scrape"
    /\ \E k \in 1..Len(links) :
          /\ IsDirLink(links[k][2])
          /\ links[k][1] \o links[k][2] \notin Range(SeedTable(sensor, country))
          /\ links[k][1] \o links[k][2] \in Range(urls)
          /\ \E j \in 1..(k - 1) : links[j] = links[k]

\* C19: when the download phase attempts an entry of the file list, the
\* parent directory of its translated local path has been created by the
\* materialization phase, for every root directory and every directory
\* name (also with 'ftp' or 'DRLL/' in it): no download fails because its
\* destination directory is missing.
C19_DestinationDirectoryExists ==
    \A n \in 1..Len(attempts) :
        ParentDir(NormPath(LocalFile(attempts[n].url, dir))) \in fsDirs

====
